---- MODULE Spec2Model ----
(***************************************************************************)
(* Model of the RODO audit backend: the RODOAuditEngine class and the      *)
(* POST / route of src/audit.js.                                           *)
(*                                                                         *)
(* JavaScript values are modelled as follows.                              *)
(*   - a request field is a string, or the marker Undefined when the field *)
(*     is missing from the body;                                           *)
(*   - dataTypes is a record [isArray, items]; an item is a string or the  *)
(*     marker NoPrimitive, a JSON object such as {"toString":1,"valueOf":1}*)
(*     that cannot be converted to a property key;                         *)
(*   - a number is [nan |-> BOOLEAN, n |-> Int] (n = 0 when nan);          *)
(*   - the accumulator `score` of calculateRiskScore is a number or, once  *)
(*     `+=` has met a non-number operand, a string (string concatenation). *)
(***************************************************************************)
EXTENDS Integers, Sequences, FiniteSets, TLC

VARIABLES body, pc, errors, engineCalls, riskScore, recommendations, potentialFines, res

vars == <<body, pc, errors, engineCalls, riskScore, recommendations, potentialFines, res>>

\* Longest dataTypes array the model enumerates.
MaxDataTypes == 2

----------------------------------------------------------------------------
(* JavaScript values *)

Undefined == "<undefined>"

NoPrimitive == "<{toString:1,valueOf:1}>"

Num(k) == [nan |-> FALSE, n |-> k]

NaN == [nan |-> TRUE, n |-> 0]

\* Property names every object literal inherits from Object.prototype.
ObjectPrototypeKeys == {"constructor", "toString", "valueOf", "hasOwnProperty", "__proto__"}

\* ToPropertyKey: undefined becomes the string "undefined".
ToPropertyKey(v) == IF v = Undefined THEN "undefined" ELSE v

----------------------------------------------------------------------------
(* RODOAuditEngine *)

riskFactors ==
  [ industry  |-> ("healthcare" :> 40) @@ ("finance" :> 35) @@ ("ecommerce" :> 25)
                  @@ ("marketing" :> 30) @@ ("education" :> 20) @@ ("it" :> 15)
                  @@ ("other" :> 20),
    employees |-> ("1-10" :> 10) @@ ("11-50" :> 20) @@ ("51-250" :> 30) @@ ("250+" :> 40),
    dataTypes |-> ("health" :> 30) @@ ("financial" :> 25) @@ ("behavioral" :> 15)
                  @@ ("basic" :> 10) ]

\* table[key] on an object literal: an own property, else a property
\* inherited from Object.prototype (a function or an object), else undefined.
Get(table, key) ==
  LET k == ToPropertyKey(key) IN
  IF k \in DOMAIN table THEN [kind |-> "number", n |-> table[k]]
  ELSE IF k \in ObjectPrototypeKeys THEN [kind |-> "object", n |-> 0]
  ELSE [kind |-> "undefined", n |-> 0]

\* value || dflt, for a value returned by Get and a numeric default.
OrDefault(value, dflt) ==
  IF value.kind = "undefined" \/ (value.kind = "number" /\ value.n = 0)
  THEN [kind |-> "number", n |-> dflt]
  ELSE value

\* score += operand.  A string score, or a non-number operand, concatenates.
PlusEq(score, operand) ==
  IF score.isString \/ operand.kind # "number"
  THEN [isString |-> TRUE, n |-> score.n]
  ELSE [isString |-> FALSE, n |-> score.n + operand.n]

\* Math.min(score, 100): a string score starts with digits followed by the
\* text of a function or "[object Object]", so it converts to NaN.
MathMin100(score) ==
  IF score.isString THEN NaN
  ELSE Num(IF score.n < 100 THEN score.n ELSE 100)

RECURSIVE ForEachDataType(_, _)
ForEachDataType(items, score) ==
  IF items = <<>> THEN score
  ELSE ForEachDataType(Tail(items),
                       PlusEq(score, OrDefault(Get(riskFactors.dataTypes, Head(items)), 0)))

\* The property access dataTypes[type] throws a TypeError when type cannot be
\* converted to a primitive.
Throws(auditData) ==
  /\ auditData.dataTypes.isArray
  /\ \E i \in 1..Len(auditData.dataTypes.items) : auditData.dataTypes.items[i] = NoPrimitive

calculateRiskScore(auditData) ==
  LET s0 == [isString |-> FALSE, n |-> 0]
      s1 == PlusEq(s0, OrDefault(Get(riskFactors.industry, auditData.industry), 20))
      s2 == PlusEq(s1, OrDefault(Get(riskFactors.employees, auditData.employees), 15))
      s3 == IF auditData.dataTypes.isArray
            THEN ForEachDataType(auditData.dataTypes.items, s2)
            ELSE s2
      s4 == IF auditData.hasPolicy = "no" THEN PlusEq(s3, [kind |-> "number", n |-> 30]) ELSE s3
      s5 == IF auditData.hasPolicy = "outdated" THEN PlusEq(s4, [kind |-> "number", n |-> 20]) ELSE s4
  IN MathMin100(s5)

CreatePolicy ==
  [title |-> "Stworz polityke prywatnosci", priority |-> "KRYTYCZNY", time |-> "2-3 dni"]

UpdatePolicy ==
  [title |-> "Zaktualizuj polityke prywatnosci", priority |-> "WYSOKI", time |-> "1-2 dni"]

CreateRegister ==
  [title |-> "Stworz rejestr czynnosci przetwarzania", priority |-> "WYSOKI", time |-> "3-5 dni"]

\* recommendations.slice(0, 1)
Slice1(list) == SubSeq(list, 1, IF Len(list) < 1 THEN Len(list) ELSE 1)

\* recommendations.slice(0, 5)
Slice5(list) == SubSeq(list, 1, IF Len(list) < 5 THEN Len(list) ELSE 5)

\* The register entry pushed in an else branch of the policy checks.
PushedRegisterInElse(auditData) ==
  IF auditData.hasPolicy = "no" THEN <<CreatePolicy>>
  ELSE IF auditData.hasPolicy = "outdated" THEN <<UpdatePolicy>>
  ELSE <<CreateRegister>>

Pushed(auditData) ==
  (IF auditData.hasPolicy = "no" THEN <<CreatePolicy>> ELSE <<>>)
  \o (IF auditData.hasPolicy = "outdated" THEN <<UpdatePolicy>> ELSE <<>>)
  \o <<CreateRegister>>

generateRecommendations(auditData) == Slice5(Pushed(auditData))

----------------------------------------------------------------------------
(* POST / : the validation chain and the route handler *)

\* express-validator reads a missing field as the empty string.
FieldString(v) == IF v = Undefined THEN "" ELSE v

notEmpty(v) == FieldString(v) # ""

\* trim() and escape(), on the company names the model enumerates.
Trim(s) == IF s = " A&B " THEN "A&B" ELSE s

Escape(s) == IF s = "A&B" THEN "A&amp;B" ELSE s

IndustryIsIn(v) ==
  FieldString(v) \in {"ecommerce", "healthcare", "finance", "education", "marketing", "it", "other"}

EmployeesIsIn(v) == FieldString(v) \in {"1-10", "11-50", "51-250", "250+"}

\* isEmail(), on the addresses the model enumerates (both are already in the
\* form normalizeEmail() produces, so the sanitizer leaves them as they are).
isEmail(v) == FieldString(v) \in {"jan@example.pl"}

\* The chain without its email validator.
ValidationErrorsWithoutEmail(b) ==
  (IF notEmpty(b.companyName) THEN <<>> ELSE <<"companyName">>)
  \o (IF IndustryIsIn(b.industry) THEN <<>> ELSE <<"industry">>)
  \o (IF EmployeesIsIn(b.employees) THEN <<>> ELSE <<"employees">>)

\* validationResult(req).array(): one entry per failed validator, in chain order.
ValidationErrors(b) ==
  (IF notEmpty(b.companyName) THEN <<>> ELSE <<"companyName">>)
  \o (IF IndustryIsIn(b.industry) THEN <<>> ELSE <<"industry">>)
  \o (IF EmployeesIsIn(b.employees) THEN <<>> ELSE <<"employees">>)
  \o (IF isEmail(b.email) THEN <<>> ELSE <<"email">>)

\* Math.floor(x) in the place of Math.round(x).
MathFloor(p, q) == p \div q

\* Math.round(x) for x = p / q with q > 0: floor(x + 1/2).
MathRound(p, q) == (2 * p + q) \div (2 * q)

\* Math.round((50000 * riskScore / 100) / 1000) * 1000; NaN propagates.
PotentialFines(score) ==
  IF score.nan THEN NaN ELSE Num(MathRound(50000 * score.n, 100 * 1000) * 1000)

\* riskScore < 30 ? 'NISKIE' : riskScore < 60 ? 'SREDNIE' : 'WYSOKIE'
\* (every comparison with NaN is false).
RiskLevel(score) ==
  IF ~score.nan /\ score.n < 30 THEN "NISKIE"
  ELSE IF ~score.nan /\ score.n < 60 THEN "SREDNIE"
  ELSE "WYSOKIE"

\* JSON.stringify of a number: NaN is written as null.
ToJson(num) == [null |-> num.nan, n |-> num.n]

ResultFields == {"riskScore", "riskLevel", "recommendations", "potentialFines"}

\* The object given to res.json on success, as serialized.
AuditResponse(auditData, score, recs, fines) ==
  [status |-> 200,
   json |-> [success |-> TRUE,
             companyName |-> auditData.companyName,
             riskScore |-> ToJson(score),
             riskLevel |-> RiskLevel(score),
             recommendations |-> recs,
             potentialFines |-> ToJson(fines),
             message |-> "Audyt RODO zakonczony pomyslnie"]]

----------------------------------------------------------------------------
(* Inputs *)

Industries == DOMAIN riskFactors.industry \cup {"bogus", "constructor", Undefined}

EmployeesValues == DOMAIN riskFactors.employees \cup {"bogus", "constructor"}

DataTypeItems == DOMAIN riskFactors.dataTypes \cup {"bogus", "constructor", "toString", NoPrimitive}

Policies == {"no", "outdated", "yes", Undefined}

DataTypesValues ==
  {[isArray |-> TRUE, items |-> s] :
     s \in UNION {[1..k -> DataTypeItems] : k \in 0..MaxDataTypes}}
  \cup {[isArray |-> FALSE, items |-> <<>>]}

AuditInputs ==
  [companyName : {"A&amp;B"}, industry : Industries, employees : EmployeesValues,
   dataTypes : DataTypesValues, hasPolicy : Policies, email : {"jan@example.pl"}]

RequestBodies ==
  [companyName : {"", " A&B "}, industry : Industries, employees : EmployeesValues,
   dataTypes : DataTypesValues, hasPolicy : Policies, email : {"bad", "jan@example.pl"}]

----------------------------------------------------------------------------
(* The server: one POST /api/audit request *)

Init ==
  /\ body \in RequestBodies
  /\ pc = "validators"
  /\ errors = <<>>
  /\ engineCalls = 0
  /\ riskScore = Num(0)
  /\ recommendations = <<>>
  /\ potentialFines = Num(0)
  /\ res = <<>>

\* The validation chain given to router.post: every validator runs and
\* records its error; the sanitizers rewrite req.body.companyName.
Validators ==
  /\ pc = "validators"
  /\ errors' = ValidationErrors(body)
  /\ body' = [body EXCEPT !.companyName = Escape(Trim(body.companyName))]
  /\ pc' = "handler"
  /\ UNCHANGED <<engineCalls, riskScore, recommendations, potentialFines, res>>

\* The async route handler, whole: 400 on validation errors, 500 when the
\* computation throws, else the audit result.
PostAudit ==
  /\ pc = "handler"
  /\ pc' = "done"
  /\ UNCHANGED <<body, errors>>
  /\ IF errors # <<>>
     THEN /\ res' = Append(res, [status |-> 400, json |-> [errors |-> errors]])
          /\ UNCHANGED <<engineCalls, riskScore, recommendations, potentialFines>>
     ELSE IF Throws(body)
     THEN /\ engineCalls' = engineCalls + 1
          /\ res' = Append(res, [status |-> 500,
                                 json |-> [success |-> FALSE,
                                           error |-> "Wystapil blad podczas audytu"]])
          /\ UNCHANGED <<riskScore, recommendations, potentialFines>>
     ELSE /\ engineCalls' = engineCalls + 2
          /\ riskScore' = calculateRiskScore(body)
          /\ recommendations' = generateRecommendations(body)
          /\ potentialFines' = PotentialFines(riskScore')
          /\ res' = Append(res, AuditResponse(body, riskScore', recommendations', potentialFines'))

Next == Validators \/ PostAudit

Spec == Init /\ [][Next]_vars

----------------------------------------------------------------------------
(* The engine on its own: the two methods applied to an arbitrary record *)

InitEngine ==
  /\ body \in AuditInputs
  /\ pc = "calculateRiskScore"
  /\ errors = <<>>
  /\ engineCalls = 0
  /\ riskScore = Num(0)
  /\ recommendations = <<>>
  /\ potentialFines = Num(0)
  /\ res = <<>>

CallCalculateRiskScore ==
  /\ pc = "calculateRiskScore"
  /\ engineCalls' = engineCalls + 1
  /\ IF Throws(body)
     THEN pc' = "threw" /\ UNCHANGED riskScore
     ELSE pc' = "generateRecommendations" /\ riskScore' = calculateRiskScore(body)
  /\ UNCHANGED <<body, errors, recommendations, potentialFines, res>>

CallGenerateRecommendations ==
  /\ pc = "generateRecommendations"
  /\ engineCalls' = engineCalls + 1
  /\ recommendations' = generateRecommendations(body)
  /\ pc' = "returned"
  /\ UNCHANGED <<body, errors, riskScore, potentialFines, res>>

NextEngine == CallCalculateRiskScore \/ CallGenerateRecommendations

SpecEngine == InitEngine /\ [][NextEngine]_vars

----------------------------------------------------------------------------
(* The result computation of the handler on its own: the fine, the level and
   the response for every value calculateRiskScore can return *)

\* The cap of Math.min(score, 100).
MaxScore == 100

EngineScores == {Num(s) : s \in 0..MaxScore} \cup {NaN}

InitResult ==
  /\ body \in {b \in AuditInputs : b.industry = "it" /\ b.employees = "1-10"
                                   /\ b.dataTypes.items = <<>> /\ b.dataTypes.isArray}
  /\ pc = "result"
  /\ errors = <<>>
  /\ engineCalls = 2
  /\ riskScore \in EngineScores
  /\ recommendations = generateRecommendations(body)
  /\ potentialFines = Num(0)
  /\ res = <<>>

ComputeResult ==
  /\ pc = "result"
  /\ pc' = "done"
  /\ potentialFines' = PotentialFines(riskScore)
  /\ res' = Append(res, AuditResponse(body, riskScore, recommendations, potentialFines'))
  /\ UNCHANGED <<body, errors, engineCalls, riskScore, recommendations>>

SpecResult == InitResult /\ [][ComputeResult]_vars

----------------------------------------------------------------------------
(* Vocabulary of the properties *)

Succeeded == pc = "done" /\ Len(res) = 1 /\ res[1].status = 200

Returned == pc \in {"generateRecommendations", "returned"}

\* The point tables as the specification states them.
IndustryPoints(i) ==
  CASE i = "healthcare" -> 40 [] i = "finance" -> 35 [] i = "ecommerce" -> 25
    [] i = "marketing" -> 30 [] i = "education" -> 20 [] i = "it" -> 15
    [] i = "other" -> 20 [] OTHER -> 20

EmployeePoints(e) ==
  CASE e = "1-10" -> 10 [] e = "11-50" -> 20 [] e = "51-250" -> 30
    [] e = "250+" -> 40 [] OTHER -> 15

DataTypePoints(t) ==
  CASE t = "health" -> 30 [] t = "financial" -> 25 [] t = "behavioral" -> 15
    [] t = "basic" -> 10 [] OTHER -> 0

PolicyPoints(p) == CASE p = "no" -> 30 [] p = "outdated" -> 20 [] OTHER -> 0

Recognized == {"health", "financial", "behavioral", "basic"}

RECURSIVE SumDataTypePoints(_)
SumDataTypePoints(items) ==
  IF items = <<>> THEN 0 ELSE DataTypePoints(Head(items)) + SumDataTypePoints(Tail(items))

ItemsOf(b) == IF b.dataTypes.isArray THEN b.dataTypes.items ELSE <<>>

ExpectedScore(b) ==
  LET sum == IndustryPoints(b.industry) + EmployeePoints(b.employees)
             + SumDataTypePoints(ItemsOf(b)) + PolicyPoints(b.hasPolicy)
  IN IF sum < 100 THEN sum ELSE 100

RECURSIVE OnlyRecognized(_)
OnlyRecognized(items) ==
  IF items = <<>> THEN <<>>
  ELSE (IF Head(items) \in Recognized THEN <<Head(items)>> ELSE <<>>)
       \o OnlyRecognized(Tail(items))

WithItems(b, items) == [b EXCEPT !.dataTypes = [isArray |-> TRUE, items |-> items]]

\* a >= b on JavaScript numbers: false when either is NaN.
GreaterOrEqual(a, b) == ~a.nan /\ ~b.nan /\ a.n >= b.n

NoInheritedName(b) ==
  /\ ToPropertyKey(b.industry) \notin ObjectPrototypeKeys
  /\ ToPropertyKey(b.employees) \notin ObjectPrototypeKeys
  /\ \A i \in 1..Len(ItemsOf(b)) : ItemsOf(b)[i] \notin ObjectPrototypeKeys

----------------------------------------------------------------------------
(* Properties *)

\* C1: in every successful response the score is min(I + E + D + P, 100),
\* with I, E, D, P read from the specification's tables; with empty dataTypes
\* and a current policy it is industryPoints + employeePoints.
C1_ScoreIsClampedSum ==
  Succeeded =>
    /\ riskScore = Num(ExpectedScore(body))
    /\ (ItemsOf(body) = <<>> /\ body.hasPolicy \notin {"no", "outdated"}
          => riskScore = Num(IndustryPoints(body.industry) + EmployeePoints(body.employees)))

\* C2: the score returned for any input is an integer between 0 and 100.
C2_ScoreInRange ==
  Succeeded =>
    /\ ~riskScore.nan /\ riskScore.n \in 0..100
    /\ ~res[1].json.riskScore.null

\* C3: an unrecognized dataTypes entry contributes 0: the score equals the
\* score of the same input with the unrecognized entries removed, and a
\* dataTypes field that is not an array contributes nothing.
C3_UnrecognizedContributesZero ==
  Succeeded =>
    /\ riskScore = calculateRiskScore(WithItems(body, OnlyRecognized(ItemsOf(body))))
    /\ (~body.dataTypes.isArray => riskScore = calculateRiskScore(WithItems(body, <<>>)))

\* C4: an industry that is missing or not in the table scores as "other"
\* does; an employees value not in the table contributes 15 (stated here on
\* the inputs whose dataTypes hold no inherited name).
C4_DefaultsForUnknownKeys ==
  Returned =>
    /\ (ToPropertyKey(body.industry) \notin DOMAIN riskFactors.industry
          => /\ riskScore = calculateRiskScore([body EXCEPT !.industry = "other"])
             /\ (ItemsOf(body) = <<>> /\ body.employees \in DOMAIN riskFactors.employees
                   /\ body.hasPolicy = "yes"
                   => riskScore = Num(20 + EmployeePoints(body.employees))))
    /\ (body.employees \notin DOMAIN riskFactors.employees
          /\ (\A i \in 1..Len(ItemsOf(body)) : ItemsOf(body)[i] \notin ObjectPrototypeKeys)
          /\ body.industry \in DOMAIN riskFactors.industry
          => riskScore = Num(ExpectedScore(body)))

\* C5: appending a recognized data type never lowers the score, and a score
\* of 100 stays 100.
C5_MonotoneInDataTypes ==
  Succeeded =>
    \A t \in Recognized :
      LET more == calculateRiskScore(WithItems(body, Append(ItemsOf(body), t))) IN
      /\ GreaterOrEqual(more, riskScore)
      /\ (riskScore = Num(100) => more = Num(100))

\* C6: in every successful response the level follows from the score of the
\* same response: NISKIE iff score < 30, SREDNIE iff 30 <= score < 60,
\* WYSOKIE iff score >= 60.
C6_LevelFromScore ==
  Succeeded =>
    LET score == res[1].json.riskScore
        level == res[1].json.riskLevel
    IN /\ level \in {"NISKIE", "SREDNIE", "WYSOKIE"}
       /\ (level = "NISKIE" <=> (~score.null /\ score.n < 30))
       /\ (level = "SREDNIE" <=> (~score.null /\ 30 <= score.n /\ score.n < 60))
       /\ (level = "WYSOKIE" <=> (~score.null /\ score.n >= 60))

Has(list, r) == \E i \in 1..Len(list) : list[i] = r

\* C7: the recommendations of a response always hold the register entry
\* (priority WYSOKI), hold the create-policy entry (KRYTYCZNY) iff hasPolicy
\* is "no", hold the update-policy entry (WYSOKI) iff hasPolicy is
\* "outdated", and are at most 5.
C7_RecommendationsContent ==
  Succeeded =>
    LET recs == res[1].json.recommendations IN
    /\ \E i \in 1..Len(recs) :
         recs[i].title = "Stworz rejestr czynnosci przetwarzania" /\ recs[i].priority = "WYSOKI"
    /\ (body.hasPolicy = "no"
          <=> \E i \in 1..Len(recs) :
                recs[i].title = "Stworz polityke prywatnosci" /\ recs[i].priority = "KRYTYCZNY")
    /\ (body.hasPolicy = "outdated"
          <=> \E i \in 1..Len(recs) :
                recs[i].title = "Zaktualizuj polityke prywatnosci" /\ recs[i].priority = "WYSOKI")
    /\ (\A i \in 1..Len(recs) : recs[i].title = "Stworz polityke prywatnosci"
          => recs[i].priority = "KRYTYCZNY")
    /\ Len(recs) <= 5

C7_Witness ==
  /\ Succeeded
  /\ body.hasPolicy = "no"
  /\ Has(res[1].json.recommendations, CreatePolicy)
  /\ Has(res[1].json.recommendations, CreateRegister)

\* Rounding to the nearest integer with halves rounded up, for k / 2.
HalfRoundedUp(k) == (k + 1) \div 2

\* C8: for every score 0..100 the engine can return, the potentialFines of
\* the response is round((50000 * riskScore / 100) / 1000) * 1000 for the
\* riskScore of the same response, halves rounded up (and null exactly when
\* riskScore is null): 0, 25000 and 50000 for 0, 50 and 100, always a
\* multiple of 1000 in 0..50000, and not decreasing with the score.
C8_PotentialFines ==
  /\ Succeeded =>
       LET score == res[1].json.riskScore
           fines == res[1].json.potentialFines
       IN /\ fines.null <=> score.null
          /\ ~score.null =>
               /\ fines.n = HalfRoundedUp(score.n) * 1000
               /\ fines.n \in 0..50000 /\ fines.n % 1000 = 0
               /\ (score.n = 0 => fines.n = 0)
               /\ (score.n = 50 => fines.n = 25000)
               /\ (score.n = 100 => fines.n = 50000)
               /\ (score.n < 100 => PotentialFines(Num(score.n + 1)).n >= fines.n)
               /\ (score.n > 0 => PotentialFines(Num(score.n - 1)).n <= fines.n)

C8_Witness ==
  /\ Succeeded
  /\ res[1].json.riskScore = [null |-> FALSE, n |-> 45]
  /\ res[1].json.potentialFines = [null |-> FALSE, n |-> 23000]

\* What the caller-side validation rejects.
FailsValidation(b) ==
  \/ b.companyName = ""
  \/ b.industry \notin {"healthcare", "finance", "ecommerce", "marketing", "education", "it", "other"}
  \/ b.employees \notin {"1-10", "11-50", "51-250", "250+"}
  \/ b.email # "jan@example.pl"

\* C9: a request that fails validation never reaches the engine and is
\* answered with the validation errors and no result field; result fields
\* are sent only for a request that passed validation; a request is answered
\* once.
C9_ValidationGuardsEngine ==
  /\ Len(res) <= 1
  /\ (pc = "done" <=> Len(res) = 1)
  /\ (FailsValidation(body) => engineCalls = 0)
  /\ (pc = "done" /\ FailsValidation(body)
        => /\ res[1].status = 400
           /\ DOMAIN res[1].json = {"errors"}
           /\ res[1].json.errors # <<>>)
  /\ (pc = "done" /\ DOMAIN res[1].json \cap ResultFields # {}
        => /\ ~FailsValidation(body)
           /\ ResultFields \subseteq DOMAIN res[1].json
           /\ res[1].status = 200)

C9_Witness ==
  /\ pc = "done"
  /\ body.email = "bad"
  /\ body.companyName # ""
  /\ res = <<[status |-> 400, json |-> [errors |-> <<"email">>]]>>
  /\ engineCalls = 0

\* Without a name inherited from Object.prototype among its keys, every
\* input scores as the specification's tables say.
ScoreAsSpecifiedWithoutInheritedNames ==
  Returned /\ NoInheritedName(body) => riskScore = Num(ExpectedScore(body))

\* C10: generateRecommendations returns either the register entry alone or a
\* single policy entry followed by the register entry; slice(0, 5) removes
\* nothing.
C10_OneOrTwoEntries ==
  pc = "returned" =>
    /\ \/ recommendations = <<CreateRegister>>
       \/ recommendations = <<CreatePolicy, CreateRegister>>
       \/ recommendations = <<UpdatePolicy, CreateRegister>>
    /\ Len(recommendations) = 1 + (IF body.hasPolicy \in {"no", "outdated"} THEN 1 ELSE 0)
    /\ ~(Has(recommendations, CreatePolicy) /\ Has(recommendations, UpdatePolicy))

C10_Witness ==
  /\ pc = "returned"
  /\ body.hasPolicy = "outdated"
  /\ recommendations = <<UpdatePolicy, CreateRegister>>

====
